---- MODULE Spec2Model ----
(***************************************************************************)
(* A model of discouple: the rate-limited request pipeline                 *)
(* (discouple/http.py) and the gateway session                             *)
(* (discouple/gateway/websocket.py).                                       *)
(*                                                                         *)
(* Time.  Instants are whole seconds.  Every stored instant (time_added,   *)
(* _global, the due time of a call_later handle) is kept relative to the   *)
(* current instant, so time.perf_counter() reads 0 and the passing of one  *)
(* second (Tick) lowers every stored instant by one.  An instant that is   *)
(* far enough in the past for every comparison the code makes with it to   *)
(* have a fixed outcome is not lowered further.                            *)
(***************************************************************************)
EXTENDS Integers, Sequences, FiniteSets, TLC

\* ---------------------------------------------------------------- bounds
\* With a server that rate-limits (Spec): the number of requests submitted
\* through HTTPClient.request, and the number of _perform_request calls the
\* worker makes in all (a throttled request is put back again and again).
LimitReqs == 2
LimitCalls == 3
\* With a server that fails with 5xx (SpecRetry): the same two numbers.
RetryReqs == 1
RetryCalls == 6
\* With callers that cancel their wait (SpecCancel): the same two numbers.
CancelReqs == 2
CancelCalls == 2
\* The gateway session (SpecGateway): the number of ws_connect calls and the
\* largest sequence number.
MaxConnects == 3
MaxSeq == 2
\* The compression stream (SpecStream): the largest binary chunk, in bytes.
MaxChunk == 4
\* The heartbeat handlers (SpecHeartbeat): the number of Hello frames received.
MaxHello == 3
\* The rate-limit handlers (SpecHandlers): the largest delay set, in seconds.
MaxDelay == 2
\* The identify lock (SpecGate): the number of sessions that share it.
MaxSessions == 2
\* The pipeline against a server that mixes 429 and 502 (SpecMixed): the
\* number of requests and the number of _perform_request calls.
MixedReqs == 1
MixedCalls == 6

\* ------------------------------------------------------------- constants
\* http.py:282  `req.tries <= 5`
RetryCeiling == 5
\* http.py:283  `_put_back(req.tries * 2)`
BackoffFactor == 2
\* websocket.py:266  `await asyncio.sleep(5)`
IdentifySleep == 5
\* http.py:272  `data["retry_after"] / 1000.0`
MsPerSecond == 1000

\* Python's None.
None == "None"

\* time.perf_counter(): the current instant (stored instants are relative).
perf_counter == 0

Max(a, b) == IF a >= b THEN a ELSE b
Min(a, b) == IF a <= b THEN a ELSE b

\* The QueuedRequest objects of the model.
Reqs == 1..Max(Max(LimitReqs, RetryReqs), CancelReqs)

\* dict.get(key, default) and dict[key] = value on a function with a finite
\* domain.
Get(d, k, default) == IF k \in DOMAIN d THEN d[k] ELSE default
Put(d, k, v) == [x \in DOMAIN d \cup {k} |-> IF x = k THEN v ELSE d[x]]

\* ---------------------------------------------------------------- routes
\* Route(method, path, **parameters); parameters default to None.
Route(method, path, guild_id, channel_id, webhook_id) ==
    [method |-> method, path |-> path, guild_id |-> guild_id,
     channel_id |-> channel_id, webhook_id |-> webhook_id]

RouteChannel == Route("GET", "/channels/{channel_id}", None, "1", None)
RouteGuild   == Route("GET", "/guilds/{guild_id}", "2", None, None)
RouteWebhook == Route("POST", "/webhooks/{webhook_id}", None, None, "3")

\* The routes the callers of the model use.
Routes == {RouteChannel, RouteGuild, RouteWebhook}

\* Route.default_bucket.  The second return is a plain string literal in the
\* source (it has no f prefix), so it is the same text for every route.
default_bucket(route) ==
    IF route.webhook_id # None
    THEN route.path \o "_" \o route.webhook_id
    ELSE "{self.path}_{self.parameters['guild_id']}_{self.parameters['channel_id']}"

\* The timeouts the callers pass to HTTPClient.request (seconds); the empty
\* tuple stands for timeout=None.
NoTimeout == <<>>
Timeouts == {NoTimeout, <<1>>}

\* The retry_after values (milliseconds) of 429 bodies.
RetryAfters == {2000}

\* Values of the X-Ratelimit-Remaining header (header values are strings);
\* None when the header is absent.
RemainingHeaders == {None, "0"}

\* A response: status, whether a Via header is present, the
\* X-Ratelimit-Remaining header, and retry_after and global of the decoded
\* body (read for a 429 only).
Plain(statuses) ==
    [status : statuses, via : {FALSE}, remaining : RemainingHeaders,
     retry_after : {0}, global : {FALSE}]
TooMany ==
    [status : {429}, via : BOOLEAN, remaining : RemainingHeaders,
     retry_after : RetryAfters, global : BOOLEAN]

\* The answers of a server that rate-limits, and of one that fails with 5xx.
LimitResponses == Plain({200, 304, 404}) \cup TooMany
RetryResponses == Plain({200, 304, 404, 500, 502})
CancelResponses == Plain({200, 304, 404, 502})
MixedResponses == Plain({200, 502}) \cup {resp \in TooMany : resp.via /\ resp.global}

VARIABLES
    \* HTTPClient
    queue,        \* self.queue: the requests waiting, oldest first
    _worker,      \* self._worker: "none" (None), "running" or "done"
    alive,        \* the number of _request_worker tasks that have not finished
    inflight,     \* the request whose network call the worker awaits ({} or {r})
    timers,       \* loop.call_later handles of _put_back: [req, when]
    \* QueuedRequest, one per request of Reqs
    future,       \* "unsent" (request() not called yet), "pending", "result",
                  \* "timeout" (asyncio.TimeoutError) or "error" (another exception)
    route, timeout, time_added, tries,
    \* LocalRateLimitHandler
    _global, _buckets, _deltas,
    \* history
    n5xx,         \* per request: the number of 500/502 responses it received
    only5xx,      \* per request: it met nothing so far but 500/502 responses
                  \* and a 2xx response
    throttled,    \* per request: it was put back because get_delta was positive
    doomed,       \* per request: it was last put back so, by more than its timeout
    window,       \* seconds left of the window of the last global 429
    bucket429,    \* bucket -> seconds left of the retry delay of its last 429
    limited,      \* the routes that received a bucket-scoped 429
    calls,        \* the number of _perform_request calls made so far
    \* DiscordWebSocket
    gpc,          \* where the task that runs connect / start_polling stands
    after,        \* what follows the connect() in progress
    conn,         \* the number of ws_connect calls: self._ws is connection conn
    ws_closed,    \* self._ws.closed
    close_code,   \* self._ws.close_code
    _session_id, _last_seq,
    _hb_handler,  \* "none" (None), "running" or "stopped"
    lock,         \* the holder of self._identify_lock
    upc,          \* where the identify() task the application starts stands
    \* history
    cause,        \* what the session is recovering from
    handshake,    \* the last Identify or Resume payload sent
    \* DiscordWebSocket, decompression
    _buffer,      \* self._buffer: the bytes received and not yet decompressed
    incoming,     \* the binary chunks the connection is about to deliver
    fed,          \* history: the chunks poll_message received, in order
    frames,       \* history: the buffers handed to self._zlip.decompress
    \* HeartbeatHandler, one per Hello received
    hb_installed, \* which handler self._hb_handler is (0: None)
    hb_pc,        \* per handler: where its thread stands
    _stop,        \* per handler: self._stop is set
    hello_pc,     \* where the read loop stands in the handling of a Hello
    stale,        \* history: a handler that was not the installed one sent a heartbeat
    \* RedisRateLimitHandler
    redis_hash,   \* the hash <prefix>buckets: path -> bucket
    redis_ttl,    \* the keys set with SETEX: key -> seconds to live
    \* IdentifyLock shared by several sessions
    gate_holder,  \* the sessions that hold the lock
    ident_pc,     \* per session: where its identify() call stands
    sleep_left,   \* per session: seconds left of its asyncio.sleep(5)
    since_identify, \* history: seconds since the last IDENTIFY was sent (capped)
    identifies,   \* history: the number of IDENTIFY payloads sent (capped)
    \* DiscordWebSocket, one turn of start_polling on one message
    rpc,          \* where start_polling stands: "poll", "recover" or "crashed"
    received,     \* history: the message the last poll_message received
    raised,       \* what the last poll_message raised ("none": it returned)
    _dispatch,    \* the calls of self._dispatch the last poll_message made
    heartbeats    \* the heartbeat payloads the last poll_message sent

httpVars == <<queue, _worker, alive, inflight, timers, future, route, timeout,
              time_added, tries, _global, _buckets, _deltas>>
histVars == <<n5xx, only5xx, throttled, doomed, window, bucket429, limited, calls>>
gwVars == <<gpc, after, conn, ws_closed, close_code, _session_id, _last_seq,
            _hb_handler, lock, upc, cause, handshake>>
streamVars == <<_buffer, incoming, fed, frames>>
hbVars == <<hb_installed, hb_pc, _stop, hello_pc, stale>>
redisVars == <<redis_hash, redis_ttl>>
gateVars == <<gate_holder, ident_pc, sleep_left, since_identify, identifies>>
rxVars == <<rpc, received, raised, _dispatch, heartbeats>>
auxVars == <<streamVars, hbVars, redisVars, gateVars, rxVars>>
offStream == <<httpVars, histVars, gwVars, hbVars, redisVars, gateVars, rxVars>>
offHeartbeat == <<httpVars, histVars, gwVars, streamVars, redisVars, gateVars, rxVars>>
offGate == <<httpVars, histVars, gwVars, streamVars, hbVars, redisVars, rxVars>>
offReceive == <<httpVars, histVars, streamVars, hbVars, redisVars, gateVars,
                gpc, after, conn, ws_closed, close_code, lock, upc, cause,
                handshake>>
vars == <<httpVars, histVars, gwVars, auxVars>>

\* ------------------------------------------------------- QueuedRequest
\* QueuedRequest.expiration; math.inf is modelled by HasExpiration.
HasExpiration(r) == timeout[r] # NoTimeout
expiration(r) == time_added[r] + timeout[r][1]

\* Mutant of Expired: the comparison the wrong way round.
Expired_reversed(r) == HasExpiration(r) /\ expiration(r) > perf_counter

\* http.py:291  `req.expiration < time.perf_counter()`
Expired(r) == HasExpiration(r) /\ expiration(r) < perf_counter

\* ----------------------------------------------- LocalRateLimitHandler
get_bucket(buckets, rt) == Get(buckets, rt.path, default_bucket(rt))

get_delta(rt) ==
    LET global_delta == _global - perf_counter
    IN  IF global_delta > 0
        THEN global_delta
        ELSE Get(_deltas, get_bucket(_buckets, rt), 0)

\* Mutant of set_delta: the delay is not stored.
set_delta_dropped(buckets, deltas, rt, delta) == deltas

set_delta(buckets, deltas, rt, delta) == Put(deltas, get_bucket(buckets, rt), delta)

\* Mutant of set_global: the delay is not added to the current instant.
set_global_no_delta(delta) == perf_counter

set_global(delta) == perf_counter + delta

set_bucket(buckets, rt, bucket) == Put(buckets, rt.path, bucket)

\* ------------------------------------------------------------ HTTPClient
\* A request is in the pipeline: in the queue, awaited by the worker, or held
\* by a call_later handle.
InQueue(r) == \E i \in 1..Len(queue) : queue[i] = r
Scheduled(r) == \E t \in timers : t.req = r
InPipeline(r) == InQueue(r) \/ r \in inflight \/ Scheduled(r)
Resolved(r) == future[r] \in {"result", "timeout", "error"}

\* Mutant of spawns: start_worker creates a task at every call.
spawns_always(w) == TRUE

\* start_worker: `self._worker is None or self._worker.done()`
spawns(w) == w = "none" \/ w = "done"

\* start_worker
start_worker(w) == IF spawns(w) THEN "running" ELSE w

\* Mutant of put_back: the request is put back after twice the delay.
put_back_doubled(r, delta) == [req |-> r, when |-> perf_counter + delta + delta]

\* Mutant of put_back: the request is put back without waiting.
put_back_at_once(r, delta) == [req |-> r, when |-> perf_counter]

\* _put_back(_delta): the handle loop.call_later(_delta, queue.put_nowait, req).
put_back(r, delta) == [req |-> r, when |-> perf_counter + delta]

InitPipeline ==
    /\ queue = <<>>
    /\ _worker = "none"
    /\ alive = 0
    /\ inflight = {}
    /\ timers = {}
    /\ future = [r \in Reqs |-> "unsent"]
    /\ route = [r \in Reqs |-> RouteChannel]
    /\ timeout = [r \in Reqs |-> NoTimeout]
    /\ time_added = [r \in Reqs |-> 0]
    /\ tries = [r \in Reqs |-> 0]
    /\ _global = 0
    /\ _buckets = <<>>
    /\ _deltas = <<>>
    /\ n5xx = [r \in Reqs |-> 0]
    /\ only5xx = [r \in Reqs |-> TRUE]
    /\ throttled = [r \in Reqs |-> FALSE]
    /\ doomed = [r \in Reqs |-> FALSE]
    /\ window = 0
    /\ bucket429 = <<>>
    /\ limited = {}
    /\ calls = 0

\* ---------------------------------------------------------------------
\* DiscordWebSocket: the data of a gateway session

\* Opcodes
DISPATCH == 0
HEARTBEAT == 1
IDENTIFY == 2
PRESENCE == 3
RESUME == 6
RECONNECT == 7
INVALIDATE_SESSION == 9
HELLO == 10
HEARTBEAT_ACK == 11
UnknownOp == 99
Opcodes == {DISPATCH, HEARTBEAT, IDENTIFY, PRESENCE, 4, 5, RESUME, RECONNECT, 8,
            INVALIDATE_SESSION, HELLO, HEARTBEAT_ACK, 12}

\* An absent sequence number ("s": null, self._last_seq = None) and an
\* absent close code (ws.close_code = None) are the empty tuple.
NoSeq == <<>>
NoCode == <<>>
Seqs == {NoSeq} \cup {<<n>> : n \in 1..MaxSeq}
SessionIds == {"a", "b"}

\* The close codes a server sends in a CLOSE message, and the code aiohttp
\* records when the connection is lost without one.
CloseCodes == {1000, 1001, 4000, 4004, 4009, 4010, 4011}
AbnormalClosure == 1006

\* The messages ws.receive() returns: complete TEXT frames carrying a JSON
\* payload {op, s, t, d}, CLOSE with a code, CLOSED and ERROR.
Payload(op, s, t, d) == [type |-> "TEXT", op |-> op, s |-> s, t |-> t, d |-> d]
Frames ==
    {Payload(DISPATCH, s, "READY", sid) : s \in Seqs, sid \in SessionIds}
    \cup {Payload(DISPATCH, s, "MESSAGE_CREATE", None) : s \in Seqs}
    \cup {Payload(op, s, None, None) :
            op \in {HEARTBEAT, PRESENCE, RECONNECT, HELLO, HEARTBEAT_ACK, UnknownOp},
            s \in Seqs}
    \cup {Payload(INVALIDATE_SESSION, s, None, d) : s \in Seqs, d \in {"true", "false"}}
Closes == {[type |-> "CLOSE", code |-> c] : c \in CloseCodes}
Messages == Frames \cup Closes \cup {[type |-> "CLOSED"], [type |-> "ERROR"]}

NoCause == [kind |-> "none"]
NoHandshake == [op |-> None]

\* DiscordWebSocket.__init__ without session_id and seq options.
InitGateway ==
    /\ gpc = "init"
    /\ after = "start"
    /\ conn = 0
    /\ ws_closed = FALSE
    /\ close_code = NoCode
    /\ _session_id = None
    /\ _last_seq = NoSeq
    /\ _hb_handler = "none"
    /\ lock = "free"
    /\ upc = "none"
    /\ cause = NoCause
    /\ handshake = NoHandshake

\* ---------------------------------------------------------------------
\* DiscordWebSocket: the compression stream

\* websocket.py:218  zlib_suffix = b'\x00\x00\xff\xff'
zlib_suffix == <<0, 0, 255, 255>>

\* The byte values chunks are made of: those of the suffix and one other.
Bytes == {0, 255, 7}
Chunks == UNION {[1..n -> Bytes] : n \in 1..MaxChunk}

\* data[-len(suffix):] == suffix, with len(data) >= 4
EndsWith(data, suffix) ==
    /\ Len(data) >= Len(suffix)
    /\ SubSeq(data, Len(data) - Len(suffix) + 1, Len(data)) = suffix

\* The connection is about to deliver two binary chunks.
InitStream ==
    /\ _buffer = <<>>
    /\ incoming \in [1..2 -> Chunks]
    /\ fed = <<>>
    /\ frames = <<>>

\* Outside SpecStream no binary chunk is delivered.
InitNoStream ==
    /\ _buffer = <<>>
    /\ incoming = <<>>
    /\ fed = <<>>
    /\ frames = <<>>

\* ---------------------------------------------------------------------
\* HeartbeatHandler

Handlers == 1..MaxHello

\* DiscordWebSocket.__init__: self._hb_handler = None.  A handler that does
\* not exist yet is "new".
InitHeartbeat ==
    /\ hb_installed = 0
    /\ hb_pc = [k \in Handlers |-> "new"]
    /\ _stop = [k \in Handlers |-> FALSE]
    /\ hello_pc = "idle"
    /\ stale = FALSE

\* ---------------------------------------------------------------------
\* RedisRateLimitHandler

\* RedisRateLimitHandler.__init__: key_prefix
key_prefix == "ratelimit:"

\* Redis TTL: the seconds a key has to live, -2 for a key that does not exist.
NoSuchKey == 0 - 2
ttl(key) == Get(redis_ttl, key, NoSuchKey)

\* Redis SETEX
setex(key, seconds) == Put(redis_ttl, key, seconds)

redis_get_bucket(hash, rt) == Get(hash, rt.path, default_bucket(rt))

redis_get_delta(rt) ==
    LET global_delta == ttl(key_prefix \o "global")
    IN  IF global_delta > 0
        THEN global_delta
        ELSE Min(ttl(key_prefix \o redis_get_bucket(redis_hash, rt)), 0)

redis_set_delta(rt, delta) ==
    setex(key_prefix \o redis_get_bucket(redis_hash, rt), delta)

redis_set_global(delta) == setex(key_prefix \o "global", delta)

redis_set_bucket(rt, bucket) == Put(redis_hash, rt.path, bucket)

\* An empty Redis database.
InitRedis ==
    /\ redis_hash = <<>>
    /\ redis_ttl = <<>>

\* ---------------------------------------------------------------------
\* IdentifyLock shared by several sessions

Sessions == 1..MaxSessions

\* IdentifyLock.__init__: a free asyncio.Lock.  No IDENTIFY was sent for at
\* least the length of the sleep.
InitGate ==
    /\ gate_holder = {}
    /\ ident_pc = [x \in Sessions |-> "idle"]
    /\ sleep_left = [x \in Sessions |-> 0]
    /\ since_identify = IdentifySleep
    /\ identifies = 0

\* ---------------------------------------------------------------------
\* DiscordWebSocket: what one poll_message receives and does

\* A completed binary message that zlib cannot decompress, and a message
\* whose text is not JSON.
BadZlib == [type |-> "BINARY"]
BadJson == [type |-> "TEXT", op |-> None]
Deliveries == Frames \cup {BadZlib, BadJson}

\* The injected dispatch callback returns or raises.
Callbacks == {"returns", "raises"}

NoMessage == [type |-> None]

\* start_polling is about to call poll_message for the first time.
InitReceive ==
    /\ rpc = "poll"
    /\ received = NoMessage
    /\ raised = "none"
    /\ _dispatch = <<>>
    /\ heartbeats = <<>>

Init ==
    /\ InitPipeline /\ InitGateway /\ InitNoStream /\ InitHeartbeat /\ InitRedis
    /\ InitGate /\ InitReceive

\* HTTPClient.request(route, timeout): start the worker, enqueue a new
\* QueuedRequest.  Requests are created in the order of their numbers.
request(r, rt, to) ==
    /\ future[r] = "unsent"
    /\ \A q \in Reqs : q < r => future[q] # "unsent"
    /\ _worker' = start_worker(_worker)
    /\ alive' = IF spawns(_worker) THEN alive + 1 ELSE alive
    /\ future' = [future EXCEPT ![r] = "pending"]
    /\ route' = [route EXCEPT ![r] = rt]
    /\ timeout' = [timeout EXCEPT ![r] = to]
    /\ time_added' = [time_added EXCEPT ![r] = perf_counter]
    /\ queue' = Append(queue, r)
    /\ UNCHANGED <<gwVars, auxVars, inflight, timers, tries, _global, _buckets, _deltas, histVars>>

\* Mutant of Settle: the worker has no `except Exception` handler, and an
\* exception of _perform_request ends the worker task.
Settle_uncaught(r, outcome) ==
    IF future[r] = "pending" /\ outcome # "error"
    THEN /\ future' = [future EXCEPT ![r] = outcome]
         /\ UNCHANGED <<_worker, alive>>
    ELSE /\ _worker' = "done"
         /\ alive' = alive - 1
         /\ UNCHANGED future

\* future.set_result / future.set_exception on the request the worker holds.
\* On a future that is already done both raise InvalidStateError; the worker's
\* `except Exception` handler then calls set_exception again, which raises out
\* of the handler and ends the worker task.
Settle(r, outcome) ==
    IF future[r] = "pending"
    THEN /\ future' = [future EXCEPT ![r] = outcome]
         /\ UNCHANGED <<_worker, alive>>
    ELSE /\ _worker' = "done"
         /\ alive' = alive - 1
         /\ UNCHANGED future

\* The worker lets go of a request without putting it back: nothing reads the
\* fields of the QueuedRequest any more, and they are cleared.
Forget(r) ==
    /\ route' = [route EXCEPT ![r] = RouteChannel]
    /\ timeout' = [timeout EXCEPT ![r] = NoTimeout]
    /\ time_added' = [time_added EXCEPT ![r] = 0]
    /\ tries' = [tries EXCEPT ![r] = 0]

\* The worker is at `req = await self.queue.get()` with a request to take.
WorkerReady == _worker = "running" /\ inflight = {} /\ queue # <<>>

\* _request_worker: the dequeued request has expired.
WorkerTimeout ==
    /\ WorkerReady
    /\ LET r == Head(queue) IN
        /\ Expired(r)
        /\ Settle(r, "timeout")
        /\ Forget(r)
        /\ queue' = Tail(queue)
        /\ only5xx' = [only5xx EXCEPT ![r] = FALSE]
    /\ UNCHANGED <<gwVars, auxVars, inflight, timers, _global, _buckets, _deltas, n5xx, throttled,
                   doomed, window, bucket429, limited, calls>>

\* _request_worker -> _perform_request: get_delta is positive, _put_back.
WorkerThrottled(maxCalls) ==
    /\ WorkerReady
    /\ calls < maxCalls
    /\ calls' = calls + 1
    /\ LET r == Head(queue)
           delta == get_delta(route[r])
       IN
        /\ ~Expired(r)
        /\ delta > 0
        /\ tries' = [tries EXCEPT ![r] = @ + 1]
        /\ time_added' = [time_added EXCEPT ![r] = perf_counter]
        /\ timers' = timers \cup {put_back(r, delta)}
        /\ queue' = Tail(queue)
        /\ only5xx' = [only5xx EXCEPT ![r] = FALSE]
        /\ throttled' = [throttled EXCEPT ![r] = TRUE]
        /\ doomed' = [doomed EXCEPT ![r] = HasExpiration(r) /\ delta > timeout[r][1]]
    /\ UNCHANGED <<gwVars, auxVars, alive, _worker, inflight, future, route, timeout,
                   _global, _buckets, _deltas, n5xx, window, bucket429, limited>>

\* _request_worker -> _perform_request: no delay, the network call starts.
WorkerPerform(maxCalls) ==
    /\ WorkerReady
    /\ calls < maxCalls
    /\ calls' = calls + 1
    /\ LET r == Head(queue) IN
        /\ ~Expired(r)
        /\ ~(get_delta(route[r]) > 0)
        /\ tries' = [tries EXCEPT ![r] = @ + 1]
        /\ inflight' = {r}
        /\ queue' = Tail(queue)
    /\ UNCHANGED <<gwVars, auxVars, alive, _worker, timers, future, route, timeout, time_added,
                   _global, _buckets, _deltas, n5xx, only5xx, throttled, doomed, window,
                   bucket429, limited>>

\* http.py:256-258: rl_bucket is read from X-Ratelimit-Remaining and stored
\* as the bucket of the route's path.
HeaderBuckets(rt, resp) ==
    IF resp.remaining # None
    THEN set_bucket(_buckets, rt, resp.remaining)
    ELSE _buckets

\* http.py:260-261: `rl_remaining == 0` compares a header value (a str, or
\* None) with the int 0, which is False in Python for every header value.
RemainingIsZero(resp) == FALSE

\* http.py:268
IsSuccess(resp) == 300 > resp.status /\ resp.status >= 200
\* http.py:271
IsRateLimited(resp) == resp.status = 429 /\ resp.via
\* Mutant of IsRetried: 502 is left out of the retried statuses.
IsRetried_500_only(r, resp) == resp.status = 500 /\ tries[r] <= RetryCeiling
\* http.py:282
IsRetried(r, resp) == resp.status \in {500, 502} /\ tries[r] <= RetryCeiling
\* http.py:285: aiohttp's raise_for_status raises for a status of 400 and above.
Raises(resp) == resp.status >= 400

Count5xx(r, resp) ==
    IF resp.status \in {500, 502} THEN [n5xx EXCEPT ![r] = @ + 1] ELSE n5xx

\* _perform_request: a 2xx response.
ResponseSuccess(resp) ==
    \E r \in inflight :
        /\ ~RemainingIsZero(resp)
        /\ IsSuccess(resp)
        /\ _buckets' = HeaderBuckets(route[r], resp)
        /\ Settle(r, "result")
        /\ Forget(r)
        /\ inflight' = {}
        /\ UNCHANGED <<gwVars, auxVars, queue, timers, _global, _deltas, histVars>>

\* _perform_request: a 429 with a Via header.
ResponseRateLimited(resp) ==
    \E r \in inflight :
        LET rt == route[r]
            buckets == HeaderBuckets(rt, resp)
            retry_after == resp.retry_after \div MsPerSecond
        IN
        /\ ~RemainingIsZero(resp)
        /\ ~IsSuccess(resp)
        /\ IsRateLimited(resp)
        /\ _buckets' = buckets
        /\ IF resp.global
           THEN /\ _global' = set_global(retry_after)
                /\ window' = retry_after
                /\ UNCHANGED <<_deltas, bucket429, limited>>
           ELSE /\ _deltas' = set_delta(buckets, _deltas, rt, retry_after)
                /\ bucket429' = Put(bucket429, get_bucket(buckets, rt), retry_after)
                /\ limited' = limited \cup {rt}
                /\ UNCHANGED <<_global, window>>
        /\ time_added' = [time_added EXCEPT ![r] = perf_counter]
        /\ timers' = timers \cup {put_back(r, retry_after)}
        /\ inflight' = {}
        /\ only5xx' = [only5xx EXCEPT ![r] = FALSE]
        /\ UNCHANGED <<gwVars, auxVars, alive, queue, _worker, future, route, timeout, tries, n5xx, throttled, doomed,
                       calls>>

\* _perform_request: a 500 or 502 within the retry ceiling.
ResponseRetry(resp) ==
    \E r \in inflight :
        /\ ~RemainingIsZero(resp)
        /\ ~IsSuccess(resp)
        /\ ~IsRateLimited(resp)
        /\ IsRetried(r, resp)
        /\ _buckets' = HeaderBuckets(route[r], resp)
        /\ time_added' = [time_added EXCEPT ![r] = perf_counter]
        /\ timers' = timers \cup {put_back(r, tries[r] * BackoffFactor)}
        /\ inflight' = {}
        /\ n5xx' = Count5xx(r, resp)
        /\ UNCHANGED <<gwVars, auxVars, alive, queue, _worker, future, route, timeout, tries,
                       _global, _deltas, only5xx, throttled, doomed, window, bucket429, limited,
                       calls>>

\* _perform_request: resp.raise_for_status() raises; the worker's handler sets
\* the exception on the future.
ResponseRaises(resp) ==
    \E r \in inflight :
        /\ ~RemainingIsZero(resp)
        /\ ~IsSuccess(resp)
        /\ ~IsRateLimited(resp)
        /\ ~IsRetried(r, resp)
        /\ Raises(resp)
        /\ _buckets' = HeaderBuckets(route[r], resp)
        /\ Settle(r, "error")
        /\ Forget(r)
        /\ inflight' = {}
        /\ n5xx' = Count5xx(r, resp)
        /\ only5xx' = [only5xx EXCEPT ![r] = @ /\ resp.status \in {500, 502}]
        /\ UNCHANGED <<gwVars, auxVars, queue, timers, _global, _deltas, throttled, doomed, window,
                       bucket429, limited, calls>>

\* _perform_request: resp.raise_for_status() returns (a status below 400 that
\* is not 2xx); _perform_request returns None and the worker goes on.
ResponseFallsThrough(resp) ==
    \E r \in inflight :
        /\ ~RemainingIsZero(resp)
        /\ ~IsSuccess(resp)
        /\ ~IsRateLimited(resp)
        /\ ~IsRetried(r, resp)
        /\ ~Raises(resp)
        /\ _buckets' = HeaderBuckets(route[r], resp)
        /\ Forget(r)
        /\ inflight' = {}
        /\ only5xx' = [only5xx EXCEPT ![r] = FALSE]
        /\ UNCHANGED <<gwVars, auxVars, alive, queue, _worker, timers, future, _global, _deltas, n5xx,
                       throttled, doomed, window, bucket429, limited, calls>>

\* _perform_request: session.request or the decoding of the body raises; the
\* worker's handler sets the exception on the future.
RequestRaises ==
    \E r \in inflight :
        /\ Settle(r, "error")
        /\ Forget(r)
        /\ inflight' = {}
        /\ only5xx' = [only5xx EXCEPT ![r] = FALSE]
        /\ UNCHANGED <<gwVars, auxVars, queue, timers, _global, _buckets, _deltas, n5xx, throttled, doomed,
                       window, bucket429, limited, calls>>

\* A call_later handle of _put_back is due: queue.put_nowait(req).
TimerFires ==
    \E t \in timers :
        /\ t.when <= perf_counter
        /\ timers' = timers \ {t}
        /\ queue' = Append(queue, t.req)
        /\ UNCHANGED <<gwVars, auxVars, alive, _worker, inflight, future, route, timeout, time_added, tries,
                       _global, _buckets, _deltas, histVars>>

\* The largest timeout of Timeouts.
MaxTimeout == CHOOSE n \in {t[1] : t \in Timeouts \ {NoTimeout}} :
                  \A t \in Timeouts \ {NoTimeout} : t[1] <= n

\* The event loop runs every callback that is ready before it waits, and no
\* step of the pipeline but the network call takes a second: time passes only
\* while the worker waits (for a request or for the response) and no call_later
\* handle is due.
LoopWaits == ~WorkerReady /\ \A t \in timers : t.when > perf_counter

\* One second passes: every stored instant is one second nearer to the past.
\* time_added matters only through `expiration < perf_counter`, a global or due
\* instant only while it lies in the future.
Tick ==
    /\ LoopWaits
    /\ time_added' = [r \in Reqs |->
                        IF future[r] = "pending" /\ HasExpiration(r)
                        THEN Max(time_added[r] - 1, 0 - MaxTimeout - 1)
                        ELSE time_added[r]]
    /\ _global' = Max(_global - 1, 0)
    /\ timers' = {[req |-> t.req, when |-> Max(t.when - 1, 0)] : t \in timers}
    /\ window' = Max(window - 1, 0)
    /\ bucket429' = [b \in DOMAIN bucket429 |-> Max(bucket429[b] - 1, 0)]
    /\ UNCHANGED <<gwVars, auxVars, alive, queue, _worker, inflight, future, route, timeout, tries,
                   _buckets, _deltas, n5xx, only5xx, throttled, doomed, limited,
                   calls>>

\* The pipeline with a server that rate-limits.
Next ==
    \/ \E r \in 1..LimitReqs, rt \in Routes, to \in Timeouts : request(r, rt, to)
    \/ WorkerTimeout
    \/ WorkerThrottled(LimitCalls)
    \/ WorkerPerform(LimitCalls)
    \/ \E resp \in LimitResponses : ResponseSuccess(resp)
    \/ \E resp \in LimitResponses : ResponseRateLimited(resp)
    \/ \E resp \in LimitResponses : ResponseRaises(resp)
    \/ \E resp \in LimitResponses : ResponseFallsThrough(resp)
    \/ RequestRaises
    \/ TimerFires
    \/ Tick

Spec == Init /\ [][Next]_vars

\* The pipeline with a server that fails with 5xx.
NextRetry ==
    \/ \E r \in 1..RetryReqs, rt \in Routes, to \in Timeouts : request(r, rt, to)
    \/ WorkerTimeout
    \/ WorkerPerform(RetryCalls)
    \/ \E resp \in RetryResponses : ResponseSuccess(resp)
    \/ \E resp \in RetryResponses : ResponseRetry(resp)
    \/ \E resp \in RetryResponses : ResponseRaises(resp)
    \/ \E resp \in RetryResponses : ResponseFallsThrough(resp)
    \/ RequestRaises
    \/ TimerFires
    \/ Tick

SpecRetry == Init /\ [][NextRetry]_vars

\* The pipeline with a server that answers one request with global 429
\* responses and with 502.
NextMixed ==
    \/ \E r \in 1..MixedReqs, to \in Timeouts : request(r, RouteChannel, to)
    \/ WorkerTimeout
    \/ WorkerPerform(MixedCalls)
    \/ \E resp \in MixedResponses : ResponseSuccess(resp)
    \/ \E resp \in MixedResponses : ResponseRateLimited(resp)
    \/ \E resp \in MixedResponses : ResponseRetry(resp)
    \/ \E resp \in MixedResponses : ResponseRaises(resp)
    \/ RequestRaises
    \/ TimerFires
    \/ Tick

SpecMixed == Init /\ [][NextMixed]_vars

\* The task that awaits HTTPClient.request is cancelled while it waits for
\* the future of the request (http.py:216): the future is cancelled.  The
\* QueuedRequest stays where it is in the pipeline.
cancel(r) ==
    /\ future[r] = "pending"
    /\ future' = [future EXCEPT ![r] = "cancelled"]
    /\ UNCHANGED <<gwVars, auxVars, alive, queue, _worker, inflight, timers, route, timeout,
                   time_added, tries, _global, _buckets, _deltas, histVars>>

\* The pipeline with callers that cancel, and a server that fails with 5xx.
NextCancel ==
    \/ \E r \in 1..CancelReqs, to \in Timeouts : request(r, RouteChannel, to)
    \/ \E r \in 1..CancelReqs : cancel(r)
    \/ WorkerTimeout
    \/ WorkerPerform(CancelCalls)
    \/ \E resp \in CancelResponses : ResponseSuccess(resp)
    \/ \E resp \in CancelResponses : ResponseRetry(resp)
    \/ \E resp \in CancelResponses : ResponseRaises(resp)
    \/ \E resp \in CancelResponses : ResponseFallsThrough(resp)
    \/ RequestRaises
    \/ TimerFires
    \/ Tick

SpecCancel == Init /\ [][NextCancel]_vars

\* ---------------------------------------------------------------------
\* DiscordWebSocket: operations

\* is_resumable(), on the close code of the connection.
is_resumable_1000_only(code) == code # <<1000>>
is_resumable(code) == code \notin {<<1000>>, <<4004>>, <<4010>>, <<4011>>}

\* Mutant of SeqAfter: "s" is stored before the opcode is looked at.
SeqAfter_before_opcode(msg) ==
    IF msg.type = "TEXT" /\ msg.s # NoSeq THEN msg.s ELSE _last_seq

\* _message_received sets self._last_seq from any payload with a known
\* opcode and a non-null "s", before it looks at the opcode.
SeqAfter(msg) ==
    IF msg.type = "TEXT" /\ msg.op \in Opcodes /\ msg.s # NoSeq
    THEN msg.s ELSE _last_seq

\* _message_received sets self._session_id from a READY dispatch only.
SessionAfter(msg) ==
    IF msg.type = "TEXT" /\ msg.op = DISPATCH /\ msg.t = "READY"
    THEN msg.d ELSE _session_id

\* HELLO stops the heartbeat handler there is and starts a new one.
HbAfter(msg) ==
    IF msg.type = "TEXT" /\ msg.op = HELLO THEN "running" ELSE _hb_handler

\* ws.receive() closes the connection when it returns CLOSE (autoclose),
\* CLOSED or ERROR, and records the close code.
ClosedAfter(msg) == msg.type # "TEXT"
CodeAfter(msg) ==
    IF msg.type = "CLOSE" THEN <<msg.code>>
    ELSE IF msg.type = "TEXT" THEN close_code ELSE <<AbnormalClosure>>

\* Mutant of RECONNECT_raises: a Reconnect frame raises IdentifyWebSocket.
RECONNECT_raises_identify(msg) == "identify"

\* _message_received on op RECONNECT: raise ResumeWebSocket()
RECONNECT_raises(msg) == "resume"

\* How poll_message ends on msg: it returns ("ok"), raises ResumeWebSocket
\* ("resume") or IdentifyWebSocket ("identify"), or raises the
\* AttributeError of self._hb_handler.ack() on None ("error").
Outcome(msg) ==
    IF msg.type = "CLOSE"
    THEN IF is_resumable(CodeAfter(msg)) THEN "resume" ELSE "identify"
    ELSE IF msg.type # "TEXT" \/ msg.op \notin Opcodes THEN "ok"
    ELSE IF msg.op = HEARTBEAT_ACK /\ _hb_handler = "none" THEN "error"
    ELSE IF msg.op = RECONNECT THEN RECONNECT_raises(msg)
    ELSE IF msg.op = INVALIDATE_SESSION
         THEN IF msg.d = "true" THEN "resume" ELSE "identify"
    ELSE "ok"

\* What a raised ResumeWebSocket or IdentifyWebSocket answers to.
CauseOf(msg) ==
    IF msg.type = "CLOSE" THEN [kind |-> "close", code |-> msg.code]
    ELSE IF msg.op = RECONNECT THEN [kind |-> "reconnect"]
    ELSE [kind |-> "invalidate", resumable |-> msg.d]

\* connect(): ws_connect gives a new open connection; poll_message follows.
\* The application calls it first; start_polling calls it to recover.
ws_connect ==
    /\ gpc \in {"init", "reconnect"}
    /\ conn < MaxConnects
    /\ conn' = conn + 1
    /\ ws_closed' = FALSE
    /\ close_code' = NoCode
    /\ gpc' = "connect_poll"
    /\ UNCHANGED <<after, _session_id, _last_seq, _hb_handler, lock, upc,
                   cause, handshake>>
    /\ UNCHANGED <<httpVars, histVars, auxVars>>

\* connect(): the poll_message after ws_connect.  No handler surrounds it,
\* so whatever it raises ends the task.  When the first connect() returns,
\* the application starts identify() as a task and calls start_polling.
connect_poll(msg) ==
    /\ gpc = "connect_poll"
    /\ ~ws_closed
    /\ _last_seq' = SeqAfter(msg)
    /\ _session_id' = SessionAfter(msg)
    /\ _hb_handler' = HbAfter(msg)
    /\ ws_closed' = ClosedAfter(msg)
    /\ close_code' = CodeAfter(msg)
    /\ IF Outcome(msg) # "ok"
       THEN gpc' = "crashed" /\ upc' = upc
       ELSE IF after = "start"
            THEN gpc' = "poll" /\ upc' = "waiting"
            ELSE gpc' = after /\ upc' = upc
    /\ UNCHANGED <<after, conn, lock, cause, handshake>>
    /\ UNCHANGED <<httpVars, histVars, auxVars>>

\* start_polling: one turn of the loop on a frame that poll_message
\* handles without raising.
poll_message(msg) ==
    /\ gpc = "poll"
    /\ ~ws_closed
    /\ Outcome(msg) = "ok"
    /\ _last_seq' = SeqAfter(msg)
    /\ _session_id' = SessionAfter(msg)
    /\ _hb_handler' = HbAfter(msg)
    /\ ws_closed' = ClosedAfter(msg)
    /\ close_code' = CodeAfter(msg)
    /\ UNCHANGED <<gpc, after, conn, lock, upc, cause, handshake>>
    /\ UNCHANGED <<httpVars, histVars, auxVars>>

\* start_polling: poll_message raises ResumeWebSocket.  The handler closes
\* the connection (and stops the heartbeat handler) unless it is closed
\* already, then calls connect().
poll_resume(msg) ==
    /\ gpc = "poll"
    /\ ~ws_closed
    /\ Outcome(msg) = "resume"
    /\ _last_seq' = SeqAfter(msg)
    /\ _session_id' = SessionAfter(msg)
    /\ _hb_handler' = IF ClosedAfter(msg) \/ _hb_handler = "none"
                      THEN _hb_handler ELSE "stopped"
    /\ ws_closed' = TRUE
    /\ close_code' = CodeAfter(msg)
    /\ gpc' = "reconnect"
    /\ after' = "resume"
    /\ cause' = CauseOf(msg)
    /\ UNCHANGED <<conn, lock, upc, handshake>>
    /\ UNCHANGED <<httpVars, histVars, auxVars>>

\* start_polling: poll_message raises IdentifyWebSocket.  The handler
\* clears the sequence number and the session id, calls connect() if the
\* connection is closed, then identify().
poll_identify(msg) ==
    /\ gpc = "poll"
    /\ ~ws_closed
    /\ Outcome(msg) = "identify"
    /\ _last_seq' = NoSeq
    /\ _session_id' = None
    /\ ws_closed' = ClosedAfter(msg)
    /\ close_code' = CodeAfter(msg)
    /\ IF ClosedAfter(msg)
       THEN gpc' = "reconnect" /\ after' = "identify"
       ELSE gpc' = "identify" /\ after' = after
    /\ cause' = CauseOf(msg)
    /\ UNCHANGED <<conn, _hb_handler, lock, upc, handshake>>
    /\ UNCHANGED <<httpVars, histVars, auxVars>>

\* start_polling: poll_message raises something else; no handler catches it.
poll_error(msg) ==
    /\ gpc = "poll"
    /\ ~ws_closed
    /\ Outcome(msg) = "error"
    /\ _last_seq' = SeqAfter(msg)
    /\ gpc' = "crashed"
    /\ UNCHANGED <<after, conn, ws_closed, close_code, _session_id, _hb_handler,
                   lock, upc, cause, handshake>>
    /\ UNCHANGED <<httpVars, histVars, auxVars>>

\* start_polling: `while not self._ws.closed` ends the loop.
poll_stop ==
    /\ gpc = "poll"
    /\ ws_closed
    /\ gpc' = "stopped"
    /\ UNCHANGED <<after, conn, ws_closed, close_code, _session_id, _last_seq,
                   _hb_handler, lock, upc, cause, handshake>>
    /\ UNCHANGED <<httpVars, histVars, auxVars>>

\* send_op on a closed connection raises; on an open one it sends.
\* The Identify or Resume payload sent is recorded with what it answers and
\* the connection (the number of the ws_connect call) that carried it.
Sent(op, why) ==
    [op |-> op, cause |-> why, seq |-> _last_seq, session_id |-> _session_id,
     conn |-> conn]

\* resume(), called by start_polling after connect().
resume ==
    /\ gpc = "resume"
    /\ IF ws_closed
       THEN gpc' = "crashed" /\ UNCHANGED <<handshake, cause>>
       ELSE /\ gpc' = "poll"
            /\ handshake' = Sent("RESUME", cause)
            /\ cause' = NoCause
    /\ UNCHANGED <<after, conn, ws_closed, close_code, _session_id, _last_seq,
                   _hb_handler, lock, upc>>
    /\ UNCHANGED <<httpVars, histVars, auxVars>>

\* identify(), called by start_polling: acquire the identify lock and
\* start the five-second sleep.
identify_acquire ==
    /\ gpc = "identify"
    /\ lock = "free"
    /\ lock' = "polling"
    /\ gpc' = "identify_send"
    /\ UNCHANGED <<after, conn, ws_closed, close_code, _session_id, _last_seq,
                   _hb_handler, upc, cause, handshake>>
    /\ UNCHANGED <<httpVars, histVars, auxVars>>

\* identify(), called by start_polling: after the sleep, send IDENTIFY and
\* release the lock.
identify_send ==
    /\ gpc = "identify_send"
    /\ lock' = "free"
    /\ IF ws_closed
       THEN gpc' = "crashed" /\ UNCHANGED <<handshake, cause>>
       ELSE /\ gpc' = "poll"
            /\ handshake' = Sent("IDENTIFY", cause)
            /\ cause' = NoCause
    /\ UNCHANGED <<after, conn, ws_closed, close_code, _session_id, _last_seq,
                   _hb_handler, upc>>
    /\ UNCHANGED <<httpVars, histVars, auxVars>>

\* identify(), run as a task by the application after the first connect().
task_identify_acquire ==
    /\ upc = "waiting"
    /\ lock = "free"
    /\ lock' = "task"
    /\ upc' = "sleeping"
    /\ UNCHANGED <<gpc, after, conn, ws_closed, close_code, _session_id,
                   _last_seq, _hb_handler, cause, handshake>>
    /\ UNCHANGED <<httpVars, histVars, auxVars>>

task_identify_send ==
    /\ upc = "sleeping"
    /\ lock' = "free"
    /\ upc' = "done"
    /\ handshake' = IF ws_closed THEN handshake
                    ELSE Sent("IDENTIFY", [kind |-> "application"])
    /\ UNCHANGED <<gpc, after, conn, ws_closed, close_code, _session_id,
                   _last_seq, _hb_handler, cause>>
    /\ UNCHANGED <<httpVars, histVars, auxVars>>

\* The gateway session with a server that may send any message.
NextGateway ==
    \/ ws_connect
    \/ \E msg \in Messages : connect_poll(msg)
    \/ \E msg \in Messages : poll_message(msg)
    \/ \E msg \in Messages : poll_resume(msg)
    \/ \E msg \in Messages : poll_identify(msg)
    \/ \E msg \in Messages : poll_error(msg)
    \/ poll_stop
    \/ resume
    \/ identify_acquire
    \/ identify_send
    \/ task_identify_acquire
    \/ task_identify_send

SpecGateway == Init /\ [][NextGateway]_vars

\* ---------------------------------------------------------------------
\* DiscordWebSocket: the compression stream, operations

\* poll_message on a BINARY message (websocket.py:215-227): the chunk is
\* appended to the buffer; if the chunk ends with the suffix the buffer is
\* decompressed into one frame and emptied, otherwise poll_message returns.
poll_binary ==
    /\ incoming # <<>>
    /\ LET data == Head(incoming)
           buffer == _buffer \o data
       IN  /\ incoming' = Tail(incoming)
           /\ fed' = Append(fed, data)
           /\ IF EndsWith(data, zlib_suffix)
              THEN /\ frames' = Append(frames, buffer)
                   /\ _buffer' = <<>>
              ELSE /\ frames' = frames
                   /\ _buffer' = buffer
    /\ UNCHANGED offStream

NextStream == poll_binary

\* The session as constructed, with two binary chunks on their way.
InitWithChunks ==
    /\ InitPipeline /\ InitGateway /\ InitStream /\ InitHeartbeat /\ InitRedis
    /\ InitGate /\ InitReceive

SpecStream == InitWithChunks /\ [][NextStream]_vars

\* ---------------------------------------------------------------------
\* HeartbeatHandler: operations.  The handler is a thread; the read loop is
\* a task of the event loop, and a heartbeat of the handler is a coroutine
\* the thread submits to the event loop.

\* HeartbeatHandler.stop on the handler there is, if any.
stop_installed(stops, k) ==
    IF k = 0 THEN stops ELSE [stops EXCEPT ![k] = TRUE]

\* _message_received, HELLO (websocket.py:172-180): stop the handler there
\* is, create a new one and install it.
hello_install ==
    /\ hello_pc = "idle"
    /\ hb_installed < MaxHello
    /\ _stop' = stop_installed(_stop, hb_installed)
    /\ hb_installed' = hb_installed + 1
    /\ hb_pc' = [hb_pc EXCEPT ![hb_installed + 1] = "created"]
    /\ hello_pc' = "installed"
    /\ UNCHANGED stale
    /\ UNCHANGED offHeartbeat

\* _message_received, HELLO (websocket.py:181-182): the read loop sends a
\* heartbeat of its own and starts the thread of the new handler.
hello_start ==
    /\ hello_pc = "installed"
    /\ hb_pc' = [hb_pc EXCEPT ![hb_installed] = "wait"]
    /\ hello_pc' = "idle"
    /\ UNCHANGED <<hb_installed, _stop, stale>>
    /\ UNCHANGED offHeartbeat

\* HeartbeatHandler.run: self._stop.wait(self.interval) times out.
hb_timeout(k) ==
    /\ hb_pc[k] = "wait"
    /\ ~_stop[k]
    /\ hb_pc' = [hb_pc EXCEPT ![k] = "woke"]
    /\ UNCHANGED <<hb_installed, _stop, hello_pc, stale>>
    /\ UNCHANGED offHeartbeat

\* HeartbeatHandler.run: self._stop.wait returns True, the thread ends.
hb_exit(k) ==
    /\ hb_pc[k] = "wait"
    /\ _stop[k]
    /\ hb_pc' = [hb_pc EXCEPT ![k] = "ended"]
    /\ UNCHANGED <<hb_installed, _stop, hello_pc, stale>>
    /\ UNCHANGED offHeartbeat

\* HeartbeatHandler.run: asyncio.run_coroutine_threadsafe(send_heartbeat()).
hb_submit(k) ==
    /\ hb_pc[k] = "woke"
    /\ hb_pc' = [hb_pc EXCEPT ![k] = "submitted"]
    /\ UNCHANGED <<hb_installed, _stop, hello_pc, stale>>
    /\ UNCHANGED offHeartbeat

\* The event loop, when the read loop does not hold it, runs the submitted
\* send_heartbeat(): the heartbeat is sent, f.result returns, the thread
\* waits again.
hb_beat(k) ==
    /\ hb_pc[k] = "submitted"
    /\ hello_pc = "idle"
    /\ hb_pc' = [hb_pc EXCEPT ![k] = "wait"]
    /\ stale' = (stale \/ k # hb_installed)
    /\ UNCHANGED <<hb_installed, _stop, hello_pc>>
    /\ UNCHANGED offHeartbeat

\* The submitted send_heartbeat() raises (the connection is closing):
\* f.result raises, the thread calls self.stop() and waits again.
hb_beat_fails(k) ==
    /\ hb_pc[k] = "submitted"
    /\ hello_pc = "idle"
    /\ hb_pc' = [hb_pc EXCEPT ![k] = "wait"]
    /\ _stop' = [_stop EXCEPT ![k] = TRUE]
    /\ UNCHANGED <<hb_installed, hello_pc, stale>>
    /\ UNCHANGED offHeartbeat

NextHeartbeat ==
    \/ hello_install
    \/ hello_start
    \/ \E k \in Handlers : hb_timeout(k)
    \/ \E k \in Handlers : hb_exit(k)
    \/ \E k \in Handlers : hb_submit(k)
    \/ \E k \in Handlers : hb_beat(k)
    \/ \E k \in Handlers : hb_beat_fails(k)

SpecHeartbeat == Init /\ [][NextHeartbeat]_vars

\* ---------------------------------------------------------------------
\* The two rate-limit handlers, given the same calls at the same instants.
\* window and bucket429 hold the seconds left of the last delay set.

BucketIds == {"b1"}
Delays == 1..MaxDelay

\* What the handlers do not touch.
offHandlers == <<queue, _worker, alive, inflight, timers, future, route, timeout,
                 time_added, tries, n5xx, only5xx, throttled, doomed, limited,
                 calls, gwVars, streamVars, hbVars, gateVars, rxVars>>

\* set_bucket(route, bucket) on both handlers.
handlers_set_bucket(rt, bucket) ==
    /\ _buckets' = set_bucket(_buckets, rt, bucket)
    /\ redis_hash' = redis_set_bucket(rt, bucket)
    /\ UNCHANGED <<_global, _deltas, redis_ttl, window, bucket429>>
    /\ UNCHANGED offHandlers

\* set_delta(route, delta) on both handlers.
handlers_set_delta(rt, delta) ==
    /\ _deltas' = set_delta(_buckets, _deltas, rt, delta)
    /\ redis_ttl' = redis_set_delta(rt, delta)
    /\ bucket429' = Put(bucket429, get_bucket(_buckets, rt), delta)
    /\ UNCHANGED <<_global, _buckets, redis_hash, window>>
    /\ UNCHANGED offHandlers

\* set_global(delta) on both handlers.
handlers_set_global(delta) ==
    /\ _global' = set_global(delta)
    /\ redis_ttl' = redis_set_global(delta)
    /\ window' = delta
    /\ UNCHANGED <<_buckets, _deltas, redis_hash, bucket429>>
    /\ UNCHANGED offHandlers

\* One second passes: time.perf_counter() is one more, and Redis lowers the
\* time to live of every key and deletes the keys that have none left.
handlers_tick ==
    /\ _global' = Max(_global - 1, 0)
    /\ redis_ttl' = [k \in {j \in DOMAIN redis_ttl : redis_ttl[j] > 1} |->
                       redis_ttl[k] - 1]
    /\ window' = Max(window - 1, 0)
    /\ bucket429' = [b \in DOMAIN bucket429 |-> Max(bucket429[b] - 1, 0)]
    /\ UNCHANGED <<_buckets, _deltas, redis_hash>>
    /\ UNCHANGED offHandlers

NextHandlers ==
    \/ \E rt \in Routes, b \in BucketIds : handlers_set_bucket(rt, b)
    \/ \E rt \in Routes, d \in Delays : handlers_set_delta(rt, d)
    \/ \E d \in Delays : handlers_set_global(d)
    \/ handlers_tick

SpecHandlers == Init /\ [][NextHandlers]_vars

\* ---------------------------------------------------------------------
\* IdentifyLock shared by several sessions: operations.  The sessions run
\* on one event loop; identify() is `async with lock: sleep(5); send_op`.

\* Mutant of locked: the lock never refuses.
locked_never(holder) == FALSE

\* asyncio.Lock.locked()
locked(holder) == holder # {}

\* Mutant of aexit: the lock is released only when the body did not raise.
aexit_unless_raised(holder, x, exc) == IF exc THEN holder ELSE holder \ {x}

\* IdentifyLock.__aexit__(exc_type, exc_val, exc_tb): release, whether the
\* body of `async with` raised (exc) or not.
aexit(holder, x, exc) == holder \ {x}

\* A session calls identify() and waits in IdentifyLock.acquire.
gate_identify(x) ==
    /\ ident_pc[x] = "idle"
    /\ ident_pc' = [ident_pc EXCEPT ![x] = "waiting"]
    /\ UNCHANGED <<gate_holder, sleep_left, since_identify, identifies>>
    /\ UNCHANGED offGate

\* IdentifyLock.__aenter__ returns: the session holds the lock and starts
\* asyncio.sleep(5).
gate_acquire(x) ==
    /\ ident_pc[x] = "waiting"
    /\ ~locked(gate_holder)
    /\ gate_holder' = gate_holder \cup {x}
    /\ ident_pc' = [ident_pc EXCEPT ![x] = "sleeping"]
    /\ sleep_left' = [sleep_left EXCEPT ![x] = IdentifySleep]
    /\ UNCHANGED <<since_identify, identifies>>
    /\ UNCHANGED offGate

\* The sleep is over and send_op sends the IDENTIFY payload.
gate_send(x) ==
    /\ ident_pc[x] = "sleeping"
    /\ sleep_left[x] = 0
    /\ ident_pc' = [ident_pc EXCEPT ![x] = "sent"]
    /\ since_identify' = 0
    /\ identifies' = Min(identifies + 1, 2)
    /\ UNCHANGED <<gate_holder, sleep_left>>
    /\ UNCHANGED offGate

\* The sleep is over and send_op raises: __aexit__ runs with the exception,
\* and identify() has failed.
gate_send_fails(x) ==
    /\ ident_pc[x] = "sleeping"
    /\ sleep_left[x] = 0
    /\ ident_pc' = [ident_pc EXCEPT ![x] = "failed"]
    /\ gate_holder' = aexit(gate_holder, x, TRUE)
    /\ UNCHANGED <<sleep_left, since_identify, identifies>>
    /\ UNCHANGED offGate

\* The identify() task is cancelled during asyncio.sleep(5): __aexit__ runs
\* with the CancelledError.
gate_cancelled(x) ==
    /\ ident_pc[x] = "sleeping"
    /\ ident_pc' = [ident_pc EXCEPT ![x] = "failed"]
    /\ gate_holder' = aexit(gate_holder, x, TRUE)
    /\ UNCHANGED <<sleep_left, since_identify, identifies>>
    /\ UNCHANGED offGate

\* IdentifyLock.__aexit__ after the payload was sent.
gate_release(x) ==
    /\ ident_pc[x] = "sent"
    /\ ident_pc' = [ident_pc EXCEPT ![x] = "idle"]
    /\ gate_holder' = aexit(gate_holder, x, FALSE)
    /\ UNCHANGED <<sleep_left, since_identify, identifies>>
    /\ UNCHANGED offGate

\* One second passes.
gate_tick ==
    /\ sleep_left' = [x \in Sessions |-> Max(sleep_left[x] - 1, 0)]
    /\ since_identify' = Min(since_identify + 1, IdentifySleep)
    /\ UNCHANGED <<gate_holder, ident_pc, identifies>>
    /\ UNCHANGED offGate

NextGate ==
    \/ \E x \in Sessions : gate_identify(x)
    \/ \E x \in Sessions : gate_acquire(x)
    \/ \E x \in Sessions : gate_send(x)
    \/ \E x \in Sessions : gate_send_fails(x)
    \/ \E x \in Sessions : gate_cancelled(x)
    \/ \E x \in Sessions : gate_release(x)
    \/ gate_tick

SpecGate == Init /\ [][NextGate]_vars

\* The event loop runs every task that can run: time passes, a sleep that is
\* over ends, __aexit__ runs; asyncio.Lock wakes its waiters in the order
\* they came, so that a waiter is not passed over for ever.
FairGate ==
    /\ WF_vars(gate_tick)
    /\ \A x \in Sessions :
          /\ WF_vars(gate_send(x) \/ gate_send_fails(x))
          /\ WF_vars(gate_release(x))
          /\ SF_vars(gate_acquire(x))

SpecGateLive == Init /\ [][NextGate]_vars /\ FairGate

\* ---------------------------------------------------------------------
\* DiscordWebSocket: one turn of start_polling on one message, with what
\* poll_message and _message_received do to the session, send and call.

\* Mutant of Dispatches: a READY event is stored and not forwarded.
Dispatches_not_READY(msg) ==
    IF msg.op = DISPATCH /\ msg.t # "READY"
    THEN <<[event |-> msg.t, data |-> msg.d]>>
    ELSE <<>>

\* _message_received: self._dispatch(event, data), reached by every frame
\* with op DISPATCH and by no other.
Dispatches(msg) ==
    IF msg.op = DISPATCH THEN <<[event |-> msg.t, data |-> msg.d]>> ELSE <<>>

\* _message_received: send_heartbeat() on HEARTBEAT and on HELLO; the
\* payload is self._last_seq, which the frame has set already.
Heartbeats(msg) ==
    IF msg.op \in {HEARTBEAT, HELLO} THEN <<SeqAfter(msg)>> ELSE <<>>

\* What poll_message raises on msg, with a dispatch callback that behaves as
\* cb: zlib.error from decompress, ValueError from ujson.loads, the signals
\* and the AttributeError of Outcome, or what the callback raises.
Raised(msg, cb) ==
    IF msg = BadZlib THEN "zlib.error"
    ELSE IF msg = BadJson THEN "ValueError"
    ELSE IF Outcome(msg) = "resume" THEN "ResumeWebSocket"
    ELSE IF Outcome(msg) = "identify" THEN "IdentifyWebSocket"
    ELSE IF Outcome(msg) = "error" THEN "AttributeError"
    ELSE IF msg.op = DISPATCH /\ cb = "raises" THEN "Exception"
    ELSE "none"

\* start_polling: except ResumeWebSocket / except IdentifyWebSocket
Caught(e) == e \in {"ResumeWebSocket", "IdentifyWebSocket"}

\* start_polling: one call of poll_message on an open connection.
receive(msg, cb) ==
    /\ rpc = "poll"
    /\ received' = msg
    /\ raised' = Raised(msg, cb)
    /\ IF msg \in Frames
       THEN /\ _last_seq' = SeqAfter(msg)
            /\ _session_id' = SessionAfter(msg)
            /\ _hb_handler' = IF Outcome(msg) = "ok" THEN HbAfter(msg)
                              ELSE _hb_handler
            /\ _dispatch' = Dispatches(msg)
            /\ heartbeats' = Heartbeats(msg)
       ELSE /\ _dispatch' = <<>>
            /\ heartbeats' = <<>>
            /\ UNCHANGED <<_last_seq, _session_id, _hb_handler>>
    /\ rpc' = IF Raised(msg, cb) = "none" THEN "poll"
              ELSE IF Caught(Raised(msg, cb)) THEN "recover"
              ELSE "crashed"
    /\ UNCHANGED offReceive

\* start_polling: the handler of the signal that was caught closes or
\* clears, reconnects and sends its payload; the loop goes on.
recover ==
    /\ rpc = "recover"
    /\ rpc' = "poll"
    /\ IF raised = "IdentifyWebSocket"
       THEN _last_seq' = NoSeq /\ _session_id' = None /\ UNCHANGED _hb_handler
       ELSE /\ _hb_handler' = IF _hb_handler = "none" THEN "none" ELSE "stopped"
            /\ UNCHANGED <<_last_seq, _session_id>>
    /\ UNCHANGED <<received, raised, _dispatch, heartbeats>>
    /\ UNCHANGED offReceive

NextReceive ==
    \/ \E msg \in Deliveries, cb \in Callbacks : receive(msg, cb)
    \/ recover

SpecReceive == Init /\ [][NextReceive]_vars

\* ------------------------------------------------------------------------
\* Properties of the request pipeline

\* The worker takes r from the queue / starts the network call of r in this step.
Dequeued(r) == InQueue(r) /\ ~InQueue(r)'
Performed(r) == r \notin inflight /\ r \in inflight'

\* The deadline time_added + timeout of r lies before the current instant.
DeadlineElapsed(r) ==
    timeout[r] # NoTimeout /\ time_added[r] + timeout[r][1] < perf_counter

\* C1: every submitted request is, at every moment, either resolved (its
\* future holds a result or an exception) or still in the pipeline (queued,
\* awaited by the worker, or held by _put_back), and never both.
C1_ResolvedOrPending ==
    \A r \in Reqs :
        future[r] # "unsent" => (Resolved(r) <=> ~InPipeline(r))

\* The close codes after which a session cannot be resumed.
NonResumable == {1000, 4004, 4010, 4011}
AnswersNonResumable(c) == c.kind = "close" /\ c.code \in NonResumable

\* C2: a close with code 1000, 4004, 4010 or 4011 is never answered with a
\* Resume.  While start_polling recovers from it, it is on the way to
\* identify() and never to resume(); the handler has cleared the session id
\* and the sequence number before it reconnects; and the handshake payload
\* sent in answer to it is an Identify.
C2_NonResumableCloseIdentifies ==
    /\ AnswersNonResumable(cause) =>
          /\ gpc \in {"reconnect", "connect_poll", "identify", "identify_send",
                       "crashed"}
          /\ gpc \in {"reconnect", "connect_poll"} => after = "identify"
          /\ gpc = "reconnect" => (_session_id = None /\ _last_seq = NoSeq)
    /\ (handshake # NoHandshake /\ AnswersNonResumable(handshake.cause)) =>
          handshake.op = "IDENTIFY"

\* An Identify was sent in answer to a close with code 4004.
C2_Witness ==
    /\ handshake # NoHandshake
    /\ handshake.op = "IDENTIFY"
    /\ handshake.cause = [kind |-> "close", code |-> 4004]

\* C3: between two frames, the session id and the sequence number are both
\* null or both non-null.
C3_IdsNullTogether ==
    gpc = "poll" => ((_session_id = None) <=> (_last_seq = NoSeq))

\* C11: of two binary chunks of which the first does not end with the suffix
\* 00 00 ff ff and the concatenation does, the first produces no frame, and
\* the second produces exactly one and leaves the buffer empty.
C11_SplitFrame ==
    /\ (Len(fed) >= 1 /\ ~EndsWith(fed[1], zlib_suffix)) =>
          (Len(fed) = 1 => frames = <<>>)
    /\ (/\ Len(fed) = 2
        /\ ~EndsWith(fed[1], zlib_suffix)
        /\ EndsWith(fed[1] \o fed[2], zlib_suffix)) =>
          (Len(frames) = 1 /\ _buffer = <<>>)

\* C12: once a Hello has replaced the heartbeat handler, no heartbeat of a
\* handler that is not the installed one is sent.
C12_NoStaleHeartbeat == ~stale

\* C13: once the connection has closed under start_polling with a code
\* outside 1000, 4004, 4010 and 4011 (1006 for a connection that was lost),
\* start_polling is about to notice it or on its way to reconnect and resume; and the handshake payload
\* sent in answer to such a close is a Resume.
C13_ResumableCloseResumes ==
    /\ (/\ upc # "none"
        /\ ws_closed /\ close_code # NoCode /\ is_resumable(close_code)) =>
          (gpc = "poll" \/ (gpc = "reconnect" /\ after = "resume"))
    /\ (/\ handshake # NoHandshake
        /\ handshake.cause.kind = "close"
        /\ ~AnswersNonResumable(handshake.cause)) =>
          handshake.op = "RESUME"

\* C14: get_delta of a route is the larger of the global delay that is left
\* (none once the instant stored by set_global has passed) and the delay
\* stored for the bucket of the route.
C14_DelayIsMax ==
    \A rt \in Routes :
        get_delta(rt) = Max(Max(_global - perf_counter, 0),
                            Get(_deltas, get_bucket(_buckets, rt), 0))

\* C15: get_bucket of a route is the bucket recorded for its path by
\* set_bucket, and two routes without a recorded bucket that differ in path
\* or in guild, channel or webhook id have different buckets.
C15_BucketOfRoute ==
    \A a, b \in Routes :
        /\ a.path \in DOMAIN _buckets => get_bucket(_buckets, a) = _buckets[a.path]
        /\ (/\ a.path \notin DOMAIN _buckets
            /\ b.path \notin DOMAIN _buckets
            /\ \/ a.path # b.path
               \/ a.guild_id # b.guild_id
               \/ a.channel_id # b.channel_id
               \/ a.webhook_id # b.webhook_id)
           => get_bucket(_buckets, a) # get_bucket(_buckets, b)

\* C16: while no global delay is left, get_delta of a route is positive as
\* long as seconds are left of the last delay set for its bucket, and zero or
\* negative once none is left.
C16_DelayExpires ==
    \A rt \in Routes :
        LET b == get_bucket(_buckets, rt) IN
        (window = 0 /\ b \in DOMAIN bucket429) =>
            (get_delta(rt) > 0 <=> bucket429[b] > 0)

\* C17: given the same calls at the same instants, the two handlers return
\* the same bucket for every route, and get_delta is positive in one exactly
\* when it is positive in the other.
C17_HandlersAgree ==
    \A rt \in Routes :
        /\ redis_get_bucket(redis_hash, rt) = get_bucket(_buckets, rt)
        /\ redis_get_delta(rt) > 0 <=> get_delta(rt) > 0

\* C29: a Resume payload that was sent carries a session id and a sequence
\* number that are both non-null.
C29_ResumeOnlyWithIds ==
    (handshake # NoHandshake /\ handshake.op = "RESUME") =>
        (handshake.session_id # None /\ handshake.seq # NoSeq)

\* C30: a connection carries at most one Identify or Resume payload: a
\* payload is not followed by another one on the same connection, except by
\* the Identify that answers an Invalid Session frame.
C30_OneHandshakePerHello ==
    [][(handshake # NoHandshake /\ handshake' # handshake) =>
          \/ handshake'.conn # handshake.conn
          \/ handshake'.cause.kind = "invalidate"]_vars

\* C31: a Reconnect frame is answered with a Resume on a new connection.
\* While start_polling recovers from it, it is on the way to resume(); the
\* step that handles the frame closes the connection, leaves no heartbeat
\* handler running and keeps the session id (and the sequence number, unless
\* the frame itself carries one); ws_connect, and a Hello without sequence
\* number as first frame of the new connection, keep both; and resume()
\* sends a Resume carrying both as they are, on the new connection.
C31_ReconnectResumes ==
    /\ [](cause.kind = "reconnect" =>
            /\ gpc \in {"reconnect", "connect_poll", "resume", "crashed"}
            /\ after = "resume"
            /\ (gpc = "reconnect" => ws_closed))
    /\ []((handshake # NoHandshake /\ handshake.cause.kind = "reconnect") =>
            handshake.op = "RESUME")
    /\ [][/\ (cause.kind # "reconnect" /\ cause'.kind = "reconnect") =>
              /\ ws_closed'
              /\ _hb_handler' # "running"
              /\ _session_id' = _session_id
              /\ \E msg \in Frames :
                    msg.op = RECONNECT /\ _last_seq' = SeqAfter(msg)
          /\ (cause.kind = "reconnect" /\ gpc = "reconnect") =>
              (_session_id' = _session_id /\ _last_seq' = _last_seq)
          /\ \A msg \in Frames :
                (/\ cause.kind = "reconnect"
                 /\ msg.op = HELLO /\ msg.s = NoSeq
                 /\ connect_poll(msg)) =>
                    /\ _session_id' = _session_id
                    /\ _last_seq' = _last_seq
                    /\ _hb_handler' = "running"
                    /\ gpc' = "resume"
          /\ (cause.kind = "reconnect" /\ gpc = "resume" /\ gpc' = "poll") =>
              /\ handshake' = [op |-> "RESUME", cause |-> cause,
                               seq |-> _last_seq, session_id |-> _session_id,
                               conn |-> conn]
              /\ _session_id' = _session_id
              /\ _last_seq' = _last_seq
              /\ ~ws_closed]_vars

\* A Resume carrying a session id and a sequence number was sent on a later
\* connection in answer to a Reconnect frame.
C31_Witness ==
    /\ handshake # NoHandshake
    /\ handshake.op = "RESUME"
    /\ handshake.cause = [kind |-> "reconnect"]
    /\ handshake.session_id # None
    /\ handshake.seq # NoSeq
    /\ handshake.conn >= 2

\* C32: an Invalid Session frame whose payload is not true is answered by
\* clearing the session id and the sequence number and reconnecting before
\* the Identify: the step that handles the frame leaves start_polling about
\* to open a new connection, with identify() to follow.
C32_InvalidSessionReconnects ==
    [][\A msg \in Frames :
          (msg.op = INVALIDATE_SESSION /\ msg.d # "true" /\ poll_identify(msg))
          => /\ _session_id' = None
             /\ _last_seq' = NoSeq
             /\ gpc' = "reconnect"
             /\ after' = "identify"]_vars

\* C33: a Dispatch frame sets the sequence number to its own if it has one,
\* sets the session id from the payload if the event is READY, and calls the
\* dispatch callback exactly once, with its event name and payload; a frame
\* of another opcode does not call it; no frame calls it twice.
C33_DispatchOnce ==
    [][\A msg \in Frames, cb \in Callbacks :
          receive(msg, cb) =>
              /\ Len(_dispatch') <= 1
              /\ IF msg.op = DISPATCH
                 THEN /\ _last_seq' = (IF msg.s # NoSeq THEN msg.s ELSE _last_seq)
                      /\ _session_id' =
                            (IF msg.t = "READY" THEN msg.d ELSE _session_id)
                      /\ _dispatch' = <<[event |-> msg.t, data |-> msg.d]>>
                 ELSE _dispatch' = <<>>]_vars

\* The last frame was a READY dispatch with a sequence number: both were
\* stored and the callback was called once with the event.
C33_Witness ==
    /\ received \in Frames
    /\ received.op = DISPATCH /\ received.t = "READY" /\ received.s # NoSeq
    /\ _dispatch = <<[event |-> "READY", data |-> received.d]>>
    /\ _session_id = received.d
    /\ _last_seq = received.s

\* C35: a frame with an unknown opcode changes neither the session id, nor
\* the sequence number, nor the heartbeat handler, nor the connection; it
\* sends nothing and calls nothing, and start_polling goes on polling.
C35_UnknownOpcodeIgnored ==
    [][\A msg \in Frames, cb \in Callbacks :
          (msg.op = UnknownOp /\ receive(msg, cb)) =>
              /\ UNCHANGED <<_session_id, _last_seq, _hb_handler, conn, ws_closed>>
              /\ heartbeats' = <<>>
              /\ _dispatch' = <<>>
              /\ raised' = "none"
              /\ rpc' = "poll"]_vars

\* The last frame had an unknown opcode and a sequence number other than
\* the one of the session, which is established and has a heartbeat handler.
C35_Witness ==
    /\ received \in Frames
    /\ received.op = UnknownOp /\ received.s # NoSeq
    /\ _last_seq # NoSeq /\ _last_seq # received.s
    /\ _session_id # None
    /\ _hb_handler = "running"
    /\ rpc = "poll"

\* C36: a message that cannot be decompressed or is not JSON makes
\* start_polling recover (reconnect and resume); it does not end it.
C36_MalformedReconnects ==
    raised \in {"zlib.error", "ValueError"} => rpc \in {"recover", "poll"}

\* C37: after the dispatch callback raised, start_polling goes on polling.
C37_CallbackFailureIsLocal ==
    raised = "Exception" => rpc = "poll"

\* C34: while start_polling goes on polling on one connection, a frame never
\* lowers the stored sequence number nor clears it; and a heartbeat sent
\* while it handles a frame carries the stored sequence number.
C34_SeqNeverDecreases ==
    [][(rpc = "poll" /\ rpc' = "poll" /\ _last_seq # NoSeq) =>
          /\ _last_seq' # NoSeq
          /\ _last_seq'[1] >= _last_seq[1]
          /\ \A i \in 1..Len(heartbeats') : heartbeats'[i] = _last_seq']_vars

\* C38: when an Identify payload is sent, the session id and the sequence
\* number of the session are both null.
C38_IdentifyStartsFresh ==
    (handshake # NoHandshake /\ handshake.op = "IDENTIFY") =>
        (handshake.session_id = None /\ handshake.seq = NoSeq)

\* C39: a session whose identify() failed or was cancelled after it had
\* acquired the identify lock does not hold the lock, and every session that
\* waits in acquire obtains the lock eventually.
C39_GateIsReleased ==
    /\ [](\A x \in Sessions : ident_pc[x] = "failed" => x \notin gate_holder)
    /\ \A y \in Sessions : (ident_pc[y] = "waiting") ~> (y \in gate_holder)

\* One session failed after it had acquired the lock, no IDENTIFY was sent
\* yet, and another session holds the lock.
C39_Witness ==
    \E x, y \in Sessions :
        /\ ident_pc[x] = "failed"
        /\ identifies = 0
        /\ ident_pc[y] = "sleeping"
        /\ gate_holder = {y}

\* C18: once start_polling runs (the application calls it when its first
\* connect() has returned), it neither returns nor raises, whatever the
\* connection delivers.
C18_ReadLoopNeverEnds ==
    upc # "none" => gpc \notin {"stopped", "crashed"}

\* The step resolves request r with an exception.
Fails(r) == future[r] = "pending" /\ future'[r] \in {"error", "timeout"}

\* C19: the worker task never ends; and a step in which a request fails (a
\* network error, an error status, an elapsed deadline) leaves the worker
\* running and free to take the next request, takes the failed request out
\* of the pipeline, and changes neither the future nor the place in the
\* pipeline of any other request.
C19_FailureIsLocal ==
    [][/\ _worker' # "done"
       /\ \A r \in Reqs : Fails(r) =>
             /\ _worker' = "running"
             /\ inflight' = {}
             /\ ~InPipeline(r)'
             /\ queue' = SelectSeq(queue, LAMBDA x : x # r)
             /\ timers' = timers
             /\ \A q \in Reqs \ {r} : future'[q] = future[q]]_vars

\* A request has failed with an error while another one waits in the queue
\* of the running worker.
C19_Witness ==
    \E r, q \in Reqs :
        /\ future[r] = "error"
        /\ InQueue(q) /\ future[q] = "pending"
        /\ _worker = "running" /\ inflight = {}

\* C20: the worker task survives the cancellation of the future of a request
\* that is queued, scheduled or in flight: it never ends.
C20_WorkerSurvivesCancel == _worker # "done"

\* The sessions between acquire and release of the identify lock.
BetweenAcquireAndRelease == {x \in Sessions : ident_pc[x] \in {"sleeping", "sent"}}

\* C21: at most one of the sessions that share an identify lock is between
\* acquire and release, and an IDENTIFY payload is sent no sooner than five
\* seconds after the one before it.
C21_IdentifyGate ==
    [][/\ Cardinality(BetweenAcquireAndRelease') <= 1
       /\ \A x \in Sessions :
             (ident_pc[x] = "sleeping" /\ ident_pc'[x] = "sent") =>
                 since_identify >= IdentifySleep]_vars

\* A second IDENTIFY has just been sent while another session waits for
\* the lock.
C21_Witness ==
    /\ identifies = 2
    /\ since_identify = 0
    /\ \E x \in Sessions : ident_pc[x] = "waiting"

\* The step ends the network call of request r.
Answered(r) == r \in inflight /\ r \notin inflight'

\* C22: when _perform_request returns after a response, whatever its status,
\* the request is resolved or scheduled to be put back.
C22_EveryStatusSettles ==
    [][\A r \in Reqs : Answered(r) => (Resolved(r)' \/ Scheduled(r)')]_vars

\* C23: when the worker dequeues a request before its deadline while the
\* delay of its route is positive, it starts no call, schedules the request
\* to be put back after that delay with time_added reset, leaves its future
\* alone, and is free at once to take the next request of the queue.
C23_ThrottledMovesOn ==
    [][\A r \in Reqs :
          (Dequeued(r) /\ ~DeadlineElapsed(r) /\ get_delta(route[r]) > 0) =>
              /\ inflight' = {}
              /\ _worker' = "running"
              /\ [req |-> r, when |-> perf_counter + get_delta(route[r])] \in timers'
              /\ time_added'[r] = perf_counter
              /\ future'[r] = future[r]
              /\ queue' = Tail(queue)]_vars

\* A request was put back because of the delay of its route and still
\* waits, while the call of another request is in flight.
C23_Witness ==
    \E r, q \in Reqs :
        /\ r # q
        /\ throttled[r]
        /\ \E t \in timers : t.req = r /\ t.when > perf_counter
        /\ q \in inflight

\* C24: when a response carries a remaining count of zero, the delay of the
\* bucket of the route is positive in the store once the response has been
\* handled (the future resolved or the request put back).
C24_HeadersUpdateStore ==
    [][\A resp \in LimitResponses, r \in Reqs :
          (/\ r \in inflight
           /\ resp.remaining = "0"
           /\ \/ ResponseSuccess(resp)
              \/ ResponseRateLimited(resp)
              \/ ResponseRaises(resp)
              \/ ResponseFallsThrough(resp))
          => Get(_deltas', get_bucket(_buckets', route[r]), 0) > 0]_vars

\* C25: a 429 response, with or without a Via header, fails the request
\* only when the retry ceiling is exceeded.
C25_TooManyIsRetried ==
    [][\A resp \in LimitResponses, r \in Reqs :
          (r \in inflight /\ resp.status = 429 /\ ResponseRaises(resp))
          => tries[r] > RetryCeiling]_vars

\* C26: a request that was put back after a bucket-scoped 429 of its route
\* and is dequeued before its deadline, when the retry delay of that 429 has
\* elapsed and no global window is active, is performed.
C26_PerformedAfterRetryDelay ==
    [][\A r \in Reqs :
          LET b == get_bucket(_buckets, route[r]) IN
          (/\ Dequeued(r)
           /\ route[r] \in limited
           /\ tries[r] >= 1
           /\ ~throttled[r]
           /\ ~DeadlineElapsed(r)
           /\ window = 0
           /\ b \in DOMAIN bucket429
           /\ bucket429[b] = 0)
          => r \in inflight']_vars

\* C27: a call of set_global or set_delta, by whichever caller, never
\* shortens a delay that is still active: the global delay of the local
\* handler, a bucket delay of the local handler whose seconds have not
\* passed, and the time to live of every Redis key are not lowered by it.
C27_LongerDelayKept ==
    [][(\/ \E d \in Delays : handlers_set_global(d)
        \/ \E rt \in Routes, d \in Delays : handlers_set_delta(rt, d))
       => /\ _global' >= _global
          /\ \A b \in DOMAIN bucket429 :
                bucket429[b] > 0 => Get(_deltas', b, 0) >= Get(_deltas, b, 0)
          /\ \A k \in DOMAIN redis_ttl :
                Get(redis_ttl', k, 0) >= redis_ttl[k]]_vars

\* C28: at every moment at most one _request_worker task is alive and at
\* most one network call is in flight; and the request whose call starts is
\* the head of the queue, every request submitted before it that still
\* waits in the queue having been taken from the queue before.
C28_SingleWorkerInOrder ==
    /\ [](alive <= 1 /\ Cardinality(inflight) <= 1)
    /\ [][\A r \in Reqs :
            Performed(r) =>
                /\ alive = 1
                /\ Head(queue) = r
                /\ \A q \in Reqs : (q < r /\ InQueue(q)) => tries[q] >= 1]_vars

\* The call of the second request is in flight on the one live worker, after
\* the first request was cancelled and left the pipeline.
C28_Witness ==
    /\ alive = 1
    /\ inflight = {2}
    /\ future[1] = "cancelled"
    /\ ~InPipeline(1)

\* C40: a 500 or 502 response fails a request only when it is at least the
\* fifth 500 or 502 response the request met, whatever the number of times
\* the request was put back because of rate limits before.
C40_CeilingCountsOnly5xx ==
    [][\A resp \in MixedResponses, r \in Reqs :
          (/\ r \in inflight
           /\ resp.status \in {500, 502}
           /\ ResponseRaises(resp))
          => n5xx'[r] >= RetryCeiling]_vars

\* C4: when the worker dequeues a request whose deadline has elapsed, it sets
\* a timeout error on it, makes no _perform_request call and no network call
\* for it, does not put it back, and stays ready for the next queued request.
C4_ExpiredFailsWithTimeout ==
    [][\A r \in Reqs :
          (Dequeued(r) /\ DeadlineElapsed(r)) =>
              /\ future'[r] = "timeout"
              /\ inflight' = {}
              /\ ~Scheduled(r)'
              /\ calls' = calls
              /\ _worker' = "running"
              /\ (queue' # <<>> => WorkerReady')]_vars

\* A request timed out in the queue (not after a throttled put back) while
\* the worker goes on with another one.
C4_Witness ==
    \E r \in Reqs, q \in Reqs :
        future[r] = "timeout" /\ ~throttled[r] /\ q \in inflight

\* C5: after a bucket-scoped 429 with retry_after = 2000 ms (and every other
\* retry_after of RetryAfters) for a route of bucket B, no network call of a
\* request of bucket B starts before those seconds have passed.
C5_BucketDelayed ==
    [][\A r \in Reqs :
          Performed(r) =>
              LET b == get_bucket(_buckets, route[r])
              IN  b \in DOMAIN bucket429 => bucket429[b] = 0]_vars

\* A request of a bucket that had a 429 was dequeued and put back, and waits.
C5_Witness ==
    \E r \in Reqs :
        /\ throttled[r] /\ Scheduled(r)
        /\ get_bucket(_buckets, route[r]) \in DOMAIN bucket429
        /\ bucket429[get_bucket(_buckets, route[r])] > 0

\* Two routes with the same path and the same major parameters.
SameMajor(a, b) ==
    /\ a.path = b.path
    /\ a.guild_id = b.guild_id
    /\ a.channel_id = b.channel_id
    /\ a.webhook_id = b.webhook_id

\* C6: a bucket-scoped 429 delays no request of another bucket: a request
\* that is dequeued before its deadline while no global window is active, and
\* whose route differs in path or major parameters from every route that had
\* a bucket-scoped 429, is performed at once.
C6_OtherBucketNotDelayed ==
    [][\A r \in Reqs :
          (/\ Dequeued(r)
           /\ ~DeadlineElapsed(r)
           /\ window = 0
           /\ \A l \in limited : ~SameMajor(l, route[r]))
          => r \in inflight']_vars

\* C7: while the window of a global 429 lasts no network call starts, for any
\* bucket; once it is over a request that is dequeued before its deadline and
\* whose bucket has no delay is performed.
C7_GlobalWindow ==
    [][\A r \in Reqs :
          /\ Performed(r) => window = 0
          /\ (/\ Dequeued(r)
              /\ ~DeadlineElapsed(r)
              /\ window = 0
              /\ Get(_deltas, get_bucket(_buckets, route[r]), 0) <= 0)
             => r \in inflight']_vars

\* A request whose first call met a global 429 (no bucket had a 429) is
\* performed again, and another request was put back during the window.
C7_Witness ==
    \E r \in inflight, q \in Reqs :
        tries[r] >= 2 /\ ~throttled[r] /\ limited = {} /\ throttled[q]

\* C8: a request that met five 502 (or 500) responses and nothing else has
\* failed with an error.
C8_FifthFailureIsTerminal ==
    \A r \in Reqs :
        (only5xx[r] /\ n5xx[r] >= 5) => future[r] = "error"

\* C9: a request that met at most four 502 (or 500) responses and nothing
\* else but a 2xx response has not failed: it is still in the pipeline, or
\* fulfilled.
C9_FourFailuresThenSuccess ==
    \A r \in Reqs :
        (only5xx[r] /\ n5xx[r] <= 4) =>
            /\ future[r] \in {"unsent", "pending", "result"}
            /\ future[r] = "pending" => InPipeline(r)

\* Four 502 responses and then a 2xx one: the request is fulfilled.
C9_Witness ==
    \E r \in Reqs : only5xx[r] /\ n5xx[r] = 4 /\ future[r] = "result"

\* C10: a request put back because the delay of its route was larger than its
\* timeout gets a timeout error when it is dequeued again; no _perform_request
\* call and no network call is made for it.
C10_ThrottledPastTimeout ==
    [][\A r \in Reqs :
          (Dequeued(r) /\ doomed[r]) =>
              /\ future'[r] = "timeout"
              /\ r \notin inflight'
              /\ ~Scheduled(r)'
              /\ calls' = calls]_vars

\* Such a request has got its timeout error.
C10_Witness ==
    \E r \in Reqs : doomed[r] /\ future[r] = "timeout"

====
